---- MODULE Spec2Model ----
(***************************************************************************)
(* Model of md2adf (src/md2adf.go): the conversion of a goldmark AST into  *)
(* an Atlassian Document Format tree.                                      *)
(*                                                                         *)
(* Go values are modelled as follows.                                      *)
(*   string     a sequence of one-character strings (so that               *)
(*              concatenation and "last byte" are computed, not assumed)   *)
(*   []Node     a record [isNil, elems]: Go distinguishes the nil slice    *)
(*              (encoded as JSON null) from an empty non-nil slice (JSON   *)
(*              []); both have length 0                                    *)
(*   Node       a TLA+ record whose DOMAIN is the set of keys of the map;  *)
(*              the nil map is NilNode                                     *)
(*   ast.Node   a record [kind, children, ...] with the fields the         *)
(*              converter reads through the goldmark API                   *)
(* A Go panic (a failed type assertion, an index out of range) shows up as *)
(* a TLC evaluation error: the operators below read a key exactly where    *)
(* the code reads it.                                                      *)
(***************************************************************************)
EXTENDS Naturals, Sequences, FiniteSets, TLC

VARIABLES fn, doc, nodes, out, pc

vars == <<fn, doc, nodes, out, pc>>

-----------------------------------------------------------------------------
(* Go slices of Node                                                       *)

NilSlice == [isNil |-> TRUE, elems |-> <<>>]

MkSlice(s) == [isNil |-> FALSE, elems |-> s]

len(sl) == Len(sl.elems)

\* append(sl, x): the result is never nil
append(sl, x) == MkSlice(sl.elems \o <<x>>)

\* append(sl, more...): appending no element returns sl itself (nil stays nil)
appendAll(sl, more) == IF len(more) = 0 THEN sl ELSE MkSlice(sl.elems \o more.elems)

\* the nil map[string]any returned by convertNode for a dropped node
NilNode == [type |-> "<nil>"]

-----------------------------------------------------------------------------
(* Marks                                                                   *)

Mark(t) == [type |-> t]

linkMark(dest) == [type |-> "link", attrs |-> [href |-> dest]]

\* fmt.Sprint of a mark: Go prints a map as map[k:v k:v] with sorted keys
Sprint(m) ==
    IF "attrs" \in DOMAIN m
    THEN <<"map[", "attrs:", "map[", "href:">> \o m.attrs.href
             \o <<"]", " ", "type:", m.type, "]">>
    ELSE <<"map[", "type:", m.type, "]">>

copyMarks(marks) == IF marks.isNil THEN NilSlice ELSE MkSlice(marks.elems)

\* marksEqual comparing the number of marks only
marksEqualByLength(a, b) ==
    LET aOk == "marks" \in DOMAIN a
        bOk == "marks" \in DOMAIN b
    IN  IF aOk # bOk THEN FALSE
        ELSE IF ~aOk THEN TRUE
        ELSE len(a.marks) = len(b.marks)

marksEqual(a, b) ==
    LET aOk == "marks" \in DOMAIN a
        bOk == "marks" \in DOMAIN b
    IN  IF ~aOk /\ ~bOk THEN TRUE
        ELSE IF ~aOk \/ ~bOk THEN FALSE
        ELSE IF len(a.marks) # len(b.marks) THEN FALSE
        ELSE \A i \in 1..len(a.marks) :
                 Sprint(a.marks.elems[i]) = Sprint(b.marks.elems[i])

-----------------------------------------------------------------------------
(* Run merger                                                              *)

RECURSIVE mergeLoopKeepFirst(_, _)
\* mergeLoop dropping the literal of a leaf it merges into the one before
mergeLoopKeepFirst(merged, rest) ==
    IF rest = <<>> THEN merged
    ELSE LET node == Head(rest)
             prev == merged[Len(merged)]
         IN  IF prev.type = "text" /\ node.type = "text" /\ marksEqual(prev, node)
             THEN mergeLoopKeepFirst(merged, Tail(rest))
             ELSE mergeLoopKeepFirst(Append(merged, node), Tail(rest))

RECURSIVE mergeLoop(_, _)
\* the body of the range loop of mergeTextNodes: merged so far, nodes left
mergeLoop(merged, rest) ==
    IF rest = <<>> THEN merged
    ELSE LET node == Head(rest)
             prev == merged[Len(merged)]
         IN  IF prev.type = "text" /\ node.type = "text" /\ marksEqual(prev, node)
             THEN mergeLoop([merged EXCEPT ![Len(merged)] =
                                [prev EXCEPT !.text = prev.text \o node.text]],
                            Tail(rest))
             ELSE mergeLoop(Append(merged, node), Tail(rest))

RECURSIVE mergePairs(_)
\* leaves merged two by two: a merged leaf takes no third one
mergePairs(q) ==
    IF Len(q) <= 1 THEN q
    ELSE IF q[1].type = "text" /\ q[2].type = "text" /\ marksEqual(q[1], q[2])
         THEN <<[q[1] EXCEPT !.text = q[1].text \o q[2].text]>> \o mergePairs(Tail(Tail(q)))
         ELSE <<q[1]>> \o mergePairs(Tail(q))

\* mergeTextNodes merging two by two
mergeTextNodesPairwise(ns) == IF len(ns) <= 1 THEN ns ELSE MkSlice(mergePairs(ns.elems))

mergeTextNodes(ns) ==
    IF len(ns) <= 1 THEN ns
    ELSE MkSlice(mergeLoop(<<ns.elems[1]>>, Tail(ns.elems)))

-----------------------------------------------------------------------------
(* Inline converter                                                        *)

\* markType of the *ast.Emphasis case
markType(level) == IF level = 2 THEN "strong" ELSE "em"

\* newMarks with the added mark put first
newMarksInFront(marks, m) == MkSlice(<<m>> \o marks.elems)

\* newMarks := append(copyMarks(marks), m)
newMarks(marks, m) == append(copyMarks(marks), m)

\* textLeaves with the marks key set whether or not marks are active
textLeavesAlwaysMarked(node, marks) ==
    LET textNode == [type |-> "text", text |-> node.segment, marks |-> copyMarks(marks)]
    IN  IF node.segment = <<>> THEN <<>>
        ELSE IF node.hard THEN <<textNode, [type |-> "hardBreak"]>>
        ELSE IF node.soft THEN <<textNode, [type |-> "text", text |-> <<" ">>]>>
        ELSE <<textNode>>

\* the leaves of the *ast.Text case
textLeaves(node, marks) ==
    LET text == node.segment
        textNode == IF len(marks) > 0
                    THEN [type |-> "text", text |-> text, marks |-> copyMarks(marks)]
                    ELSE [type |-> "text", text |-> text]
    IN  IF text = <<>> THEN <<>>
        ELSE IF node.hard THEN <<textNode, [type |-> "hardBreak"]>>
        ELSE IF node.soft THEN <<textNode, [type |-> "text", text |-> <<" ">>]>>
        ELSE <<textNode>>

\* the leaf of the *ast.CodeSpan case
codeSpanLeaf(node, marks) ==
    [type |-> "text", text |-> node.text, marks |-> newMarks(marks, Mark("code"))]

\* autoLinkLeaf treating the autolink as an explicit link
autoLinkLeafAsLink(node) ==
    [type |-> "text", text |-> node.url, marks |-> MkSlice(<<linkMark(node.url)>>)]

\* the leaf of the *ast.AutoLink case
autoLinkLeaf(node) == [type |-> "inlineCard", attrs |-> [url |-> node.url]]

\* imageLeaf without the fallback of an empty alt text to the destination
imageLeafAltOnly(node, marks) ==
    [type |-> "text", text |-> node.text,
     marks |-> newMarks(marks, linkMark(node.destination))]

\* the leaf of the *ast.Image case
imageLeaf(node, marks) ==
    LET alt == IF node.text = <<>> THEN node.destination ELSE node.text
    IN  [type |-> "text", text |-> alt,
         marks |-> newMarks(marks, linkMark(node.destination))]

RECURSIVE convertInlineChildren(_, _)
RECURSIVE inlineLoop(_, _, _)

\* one iteration of the loop of convertInlineChildren: the switch on child
inlineCase(child, marks, ns) ==
    CASE child.kind = "Text" ->
           IF child.segment = <<>> THEN ns
           ELSE MkSlice(ns.elems \o textLeaves(child, marks))
      [] child.kind = "Emphasis" ->
           appendAll(ns, convertInlineChildren(child,
                             newMarks(marks, Mark(markType(child.level)))))
      [] child.kind = "CodeSpan" -> append(ns, codeSpanLeaf(child, marks))
      [] child.kind = "Link" ->
           appendAll(ns, convertInlineChildren(child,
                             newMarks(marks, linkMark(child.destination))))
      [] child.kind = "AutoLink" -> append(ns, autoLinkLeaf(child))
      [] child.kind = "Image" -> append(ns, imageLeaf(child, marks))
      [] child.kind = "Strikethrough" ->
           appendAll(ns, convertInlineChildren(child, newMarks(marks, Mark("strike"))))
      [] child.kind = "RawHTML" -> ns
      [] OTHER ->
           IF child.children # <<>>
           THEN appendAll(ns, convertInlineChildren(child, marks))
           ELSE ns

inlineLoop(children, marks, ns) ==
    IF children = <<>> THEN ns
    ELSE inlineLoop(Tail(children), marks, inlineCase(Head(children), marks, ns))

convertInlineChildren(n, marks) == mergeTextNodes(inlineLoop(n.children, marks, NilSlice))

-----------------------------------------------------------------------------
(* Block converter, list converter, table converter                        *)

RECURSIVE concatLines(_)
\* buf.Write(line.Value(source)) for every line of node.Lines()
concatLines(lines) ==
    IF lines = <<>> THEN <<>> ELSE Head(lines) \o concatLines(Tail(lines))

RECURSIVE trimEveryNewline(_)
\* code with all its trailing '\n' bytes cut
trimEveryNewline(code) ==
    IF Len(code) > 0 /\ code[Len(code)] = "\n"
    THEN trimEveryNewline(SubSeq(code, 1, Len(code) - 1))
    ELSE code

\* code[:len(code)-1] when the last byte of code is '\n'
trimNewline(code) ==
    IF Len(code) > 0 /\ code[Len(code)] = "\n"
    THEN SubSeq(code, 1, Len(code) - 1)
    ELSE code

\* withLanguage setting attrs whatever the language tag
withLanguageAlways(adfNode, lang) == adfNode @@ [attrs |-> [language |-> lang]]

\* if lang != "" { adfNode["attrs"] = Node{"language": lang} }
withLanguage(adfNode, lang) ==
    IF lang # <<>> THEN adfNode @@ [attrs |-> [language |-> lang]] ELSE adfNode

\* the "codeBlock" node of the *ast.FencedCodeBlock and *ast.CodeBlock cases
codeBlockNode(lines) ==
    [type |-> "codeBlock",
     content |-> MkSlice(<<[type |-> "text", text |-> trimNewline(concatLines(lines))]>>)]

\* cellNode with the paragraph of an empty cell left without a content slice
cellNodeNilContent(child, cellType) ==
    LET inlineContent == convertInlineChildren(child, NilSlice)
    IN  [type |-> cellType,
         content |-> MkSlice(<<[type |-> "paragraph", content |-> inlineContent]>>)]

\* convertTableCells: one cell node per *extast.TableCell child
cellNode(child, cellType) ==
    LET inlineContent == convertInlineChildren(child, NilSlice)
        content == IF len(inlineContent) > 0
                   THEN MkSlice(<<[type |-> "paragraph", content |-> inlineContent]>>)
                   ELSE MkSlice(<<[type |-> "paragraph", content |-> MkSlice(<<>>)]>>)
    IN  [type |-> cellType, content |-> content]

RECURSIVE cellLoop(_, _, _)
cellLoop(children, cellType, cells) ==
    IF children = <<>> THEN cells
    ELSE cellLoop(Tail(children), cellType,
                  IF Head(children).kind = "TableCell"
                  THEN append(cells, cellNode(Head(children), cellType))
                  ELSE cells)

convertTableCells(row, cellType) == cellLoop(row.children, cellType, NilSlice)

\* tableRowCase with the header row converted like a body row
tableRowCaseAllCells(child, rows) ==
    IF child.kind \in {"TableHeader", "TableRow"}
    THEN append(rows, [type |-> "tableRow",
                       content |-> convertTableCells(child, "tableCell")])
    ELSE rows

\* the switch of convertTable on one child of the table
tableRowCase(child, rows) ==
    CASE child.kind = "TableHeader" ->
           append(rows, [type |-> "tableRow",
                         content |-> convertTableCells(child, "tableHeader")])
      [] child.kind = "TableRow" ->
           append(rows, [type |-> "tableRow",
                         content |-> convertTableCells(child, "tableCell")])
      [] OTHER -> rows

RECURSIVE rowLoop(_, _)
rowLoop(children, rows) ==
    IF children = <<>> THEN rows
    ELSE rowLoop(Tail(children), tableRowCase(Head(children), rows))

convertTable(table) ==
    [type |-> "table",
     attrs |-> [isNumberColumnEnabled |-> FALSE, layout |-> "default"],
     content |-> rowLoop(table.children, NilSlice)]

\* firstNode returning the last of the converted children
lastNode(children) ==
    IF len(children) > 0 THEN children.elems[len(children)] ELSE NilNode

\* if len(children) > 0 { return children[0] }, else the return nil after it
firstNode(children) ==
    IF len(children) > 0 THEN children.elems[1] ELSE NilNode

\* n.Type() of goldmark: kinds outside the converter's switch carry it as a field
NodeType(n) == IF "ntype" \in DOMAIN n THEN n.ntype ELSE "block"

RECURSIVE convertNode(_)
RECURSIVE convertChildren(_)
RECURSIVE childLoop(_, _)
RECURSIVE childLoopReversed(_, _)
RECURSIVE childLoopKeepNil(_, _)
RECURSIVE convertListItems(_)
RECURSIVE itemLoop(_, _)

\* listType without the test of the ordered flag
listTypeBullet(node) == "bulletList"

\* the listType of the *ast.List case
listType(node) == IF node.ordered THEN "orderedList" ELSE "bulletList"

convertNode(n) ==
    CASE n.kind \in {"Paragraph", "TextBlock"} ->
           LET content == convertInlineChildren(n, NilSlice)
           IN  IF len(content) = 0 THEN NilNode
               ELSE [type |-> "paragraph", content |-> content]
      [] n.kind = "Heading" ->
           [type |-> "heading", attrs |-> [level |-> n.level],
            content |-> convertInlineChildren(n, NilSlice)]
      [] n.kind = "List" ->
           [type |-> listType(n), content |-> convertListItems(n)]
      [] n.kind = "FencedCodeBlock" ->
           withLanguage(codeBlockNode(n.lines), n.language)
      [] n.kind = "CodeBlock" -> codeBlockNode(n.lines)
      [] n.kind = "Blockquote" ->
           [type |-> "blockquote", content |-> convertChildren(n)]
      [] n.kind = "ThematicBreak" -> [type |-> "rule"]
      [] n.kind = "Table" -> convertTable(n)
      [] OTHER ->
           IF n.children # <<>> /\ NodeType(n) = "block"
           THEN firstNode(convertChildren(n))
           ELSE NilNode

\* childLoop without the test node != nil
childLoopKeepNil(children, ns) ==
    IF children = <<>> THEN ns
    ELSE childLoopKeepNil(Tail(children), append(ns, convertNode(Head(children))))

\* childLoop with the converted nodes collected in reverse
childLoopReversed(children, ns) ==
    IF children = <<>> THEN ns
    ELSE LET node == convertNode(Head(children))
         IN  childLoopReversed(Tail(children),
                               IF node.type # NilNode.type
                               THEN MkSlice(<<node>> \o ns.elems) ELSE ns)

childLoop(children, ns) ==
    IF children = <<>> THEN ns
    ELSE LET node == convertNode(Head(children))
         IN  childLoop(Tail(children), IF node.type # NilNode.type THEN append(ns, node) ELSE ns)

convertChildren(n) == childLoop(n.children, NilSlice)

itemLoop(children, items) ==
    IF children = <<>> THEN items
    ELSE itemLoop(Tail(children),
                  IF Head(children).kind = "ListItem"
                  THEN append(items, [type |-> "listItem",
                                      content |-> convertChildren(Head(children))])
                  ELSE items)

convertListItems(list) == itemLoop(list.children, NilSlice)

\* Convert, after goldmark has parsed the markdown into the document d
Convert(d) == [version |-> 1, type |-> "doc", content |-> convertChildren(d)]

-----------------------------------------------------------------------------
(* The goldmark AST handed to the converter: the fields the code reads     *)

\* *ast.Text: Segment.Value(source), SoftLineBreak(), HardLineBreak()
Text(seg, soft, hard) ==
    [kind |-> "Text", children |-> <<>>, segment |-> seg, soft |-> soft, hard |-> hard]

\* *ast.Emphasis: Level
Emphasis(level, cs) == [kind |-> "Emphasis", children |-> cs, level |-> level]

\* *ast.CodeSpan: Text(source)
CodeSpan(t) == [kind |-> "CodeSpan", children |-> <<>>, text |-> t]

\* *ast.Link: Destination
Link(dest, cs) == [kind |-> "Link", children |-> cs, destination |-> dest]

\* *ast.AutoLink: URL(source), AutoLinkType
AutoLink(t, url) == [kind |-> "AutoLink", children |-> <<>>, autoLinkType |-> t, url |-> url]

\* *ast.Image: Text(source), Destination
Image(alt, dest) ==
    [kind |-> "Image", children |-> <<>>, text |-> alt, destination |-> dest]

Strikethrough(cs) == [kind |-> "Strikethrough", children |-> cs]

RawHTML == [kind |-> "RawHTML", children |-> <<>>]

\* an inline kind outside the switch of convertInlineChildren
OtherInline(cs) == [kind |-> "OtherInline", children |-> cs, ntype |-> "inline"]

Paragraph(cs) == [kind |-> "Paragraph", children |-> cs]

TextBlock(cs) == [kind |-> "TextBlock", children |-> cs]

Heading(level, cs) == [kind |-> "Heading", children |-> cs, level |-> level]

List(ordered, cs) == [kind |-> "List", children |-> cs, ordered |-> ordered]

ListItem(cs) == [kind |-> "ListItem", children |-> cs]

\* *ast.FencedCodeBlock: Lines(), Language(source)
FencedCodeBlock(lines, lang) ==
    [kind |-> "FencedCodeBlock", children |-> <<>>, lines |-> lines, language |-> lang]

\* *ast.CodeBlock: Lines()
CodeBlock(lines) == [kind |-> "CodeBlock", children |-> <<>>, lines |-> lines]

Blockquote(cs) == [kind |-> "Blockquote", children |-> cs]

ThematicBreak == [kind |-> "ThematicBreak", children |-> <<>>]

Table(cs) == [kind |-> "Table", children |-> cs]

TableHeader(cs) == [kind |-> "TableHeader", children |-> cs]

TableRow(cs) == [kind |-> "TableRow", children |-> cs]

TableCell(cs) == [kind |-> "TableCell", children |-> cs]

\* *ast.HTMLBlock: a block kind outside the switch of convertNode, no children
HTMLBlock == [kind |-> "HTMLBlock", children |-> <<>>, ntype |-> "block"]

\* a kind outside the switch of convertNode, with its n.Type()
OtherNode(ntype, cs) == [kind |-> "OtherNode", children |-> cs, ntype |-> ntype]

Document(cs) == [kind |-> "Document", children |-> cs]

-----------------------------------------------------------------------------
(* Bounded inputs                                                          *)

\* nodes of the inline forest of a paragraph with nested formatting
MaxInlineNodes == 4
\* inline children of a paragraph built from every inline kind
MaxFlat == 2
\* nodes of the block forest of a document
MaxBlockNodes == 3
\* nodes of a list, its items and their bodies
MaxListNodes == 6
\* lines of a code block
MaxLines == 3
\* columns and body rows of a table
MaxCols == 2
MaxRows == 2
\* leaves handed to mergeTextNodes
MaxLeaves == 4

U1 == <<"u">>
U2 == <<"v">>
Addr == <<"m", "@", "x">>

TextA == Text(<<"a">>, FALSE, FALSE)
TextB == Text(<<"b">>, FALSE, FALSE)
TextSoft == Text(<<"b">>, TRUE, FALSE)
TextHard == Text(<<"a">>, TRUE, TRUE)

NestAtoms == {TextA, TextSoft}

FlatAtoms ==
    {TextA, TextB, TextSoft, TextHard,
     Text(<<>>, TRUE, FALSE), Text(<<>>, FALSE, TRUE),
     CodeSpan(<<"c">>),
     AutoLink("url", U1), AutoLink("email", Addr),
     Image(<<"i">>, U2), Image(<<>>, U2), Image(<<>>, <<>>),
     RawHTML}

FlatElems ==
    FlatAtoms
      \cup {Emphasis(1, <<TextA>>), Emphasis(2, <<TextA>>), Emphasis(1, <<CodeSpan(<<"c">>)>>),
            Emphasis(2, <<Image(<<"i">>, U2)>>),
            Link(U1, <<>>), Link(U1, <<TextA>>), Link(U2, <<TextA>>),
            Link(U1, <<TextSoft, TextA>>), Link(U1, <<AutoLink("url", U2)>>),
            Link(U2, <<CodeSpan(<<"c">>)>>),
            Strikethrough(<<TextA>>), OtherInline(<<>>), OtherInline(<<TextA>>)}

\* all sequences over S of length at most n
RECURSIVE SeqsUpTo(_, _)
SeqsUpTo(S, n) ==
    IF n = 0 THEN {<<>>}
    ELSE LET shorter == SeqsUpTo(S, n - 1)
         IN  shorter \cup {Append(q, x) : q \in {r \in shorter : Len(r) = n - 1}, x \in S}

CodeLines == {<<"a", "\n">>, <<"\n">>, <<"b">>}

CodeBlocks ==
    {CodeBlock(ls) : ls \in SeqsUpTo(CodeLines, MaxLines)}
      \cup {FencedCodeBlock(ls, lang) : ls \in SeqsUpTo(CodeLines, MaxLines),
                                        lang \in {<<>>, <<"g", "o">>}}

CellContents == {<<>>, <<Emphasis(2, <<TextA>>), TextB>>}

\* a table as goldmark builds it: one header, then body rows, all of the same width
Tables ==
    UNION {{Table(<<TableHeader(h)>> \o rows) :
               h \in [1..c -> {TableCell(x) : x \in CellContents}],
               rows \in UNION {[1..r -> {TableRow(cs) :
                                   cs \in [1..c -> {TableCell(x) : x \in CellContents}]}]
                               : r \in 0..MaxRows}}
           : c \in 1..MaxCols}

BlockLeaves ==
    {Paragraph(<<TextA>>), Paragraph(<<RawHTML>>), TextBlock(<<TextB>>),
     Heading(1, <<TextA>>), Heading(6, <<>>), ThematicBreak, HTMLBlock}

ItemLeaves == {TextBlock(<<TextA>>), Paragraph(<<RawHTML>>)}

\* the grammar of the generated forests: per context, the leaves, the container
\* kinds, and per container kind the context of its children (the parser nests
\* no link in a link, and builds list items under lists only)
Leaves(ctx) ==
    CASE ctx \in {"inline", "inLink"} -> NestAtoms
      [] ctx = "block" -> BlockLeaves
      [] ctx = "items" -> {HTMLBlock}
      [] ctx = "itemBody" -> ItemLeaves
      [] OTHER -> {}

Containers(ctx) ==
    CASE ctx = "inline" -> {"em", "strong", "link"}
      [] ctx = "inLink" -> {"emInLink", "strongInLink"}
      [] ctx = "block" -> {"quote", "other", "otherInline"}
      [] ctx = "list" -> {"ul", "ol"}
      [] ctx = "items" -> {"li"}
      [] ctx = "itemBody" -> {"ul", "ol"}
      [] OTHER -> {}

ChildCtx(tag) ==
    CASE tag \in {"em", "strong"} -> "inline"
      [] tag \in {"link", "emInLink", "strongInLink"} -> "inLink"
      [] tag \in {"quote", "other", "otherInline"} -> "block"
      [] tag \in {"ul", "ol"} -> "items"
      [] tag = "li" -> "itemBody"

\* container kinds the parser also builds without children
MayBeEmpty(tag) == tag \in {"link", "quote", "li"}

Make(tag, cs) ==
    CASE tag \in {"em", "emInLink"} -> Emphasis(1, cs)
      [] tag \in {"strong", "strongInLink"} -> Emphasis(2, cs)
      [] tag = "link" -> Link(U1, cs)
      [] tag = "quote" -> Blockquote(cs)
      [] tag = "other" -> OtherNode("block", cs)
      [] tag = "otherInline" -> OtherNode("inline", cs)
      [] tag = "ul" -> List(FALSE, cs)
      [] tag = "ol" -> List(TRUE, cs)
      [] tag = "li" -> ListItem(cs)

\* the trees of exactly k nodes whose root is allowed in context ctx, given the
\* table tbl of the forests of fewer nodes (tbl[m + 1][c]: m nodes, context c)
TreesExact(tbl, ctx, k) ==
    IF k = 1
    THEN Leaves(ctx) \cup {Make(t, <<>>) : t \in {c \in Containers(ctx) : MayBeEmpty(c)}}
    ELSE UNION {{Make(t, f) : f \in tbl[k][ChildCtx(t)]} : t \in Containers(ctx)}

RECURSIVE ForestTable(_, _)
\* for m = 0..n and every context c of ctxs, the sequences of trees of context c
\* with exactly m nodes in total
ForestTable(ctxs, n) ==
    IF n = 0 THEN <<[c \in ctxs |-> {<<>>}]>>
    ELSE LET tbl == ForestTable(ctxs, n - 1)
         IN  Append(tbl,
                    [c \in ctxs |->
                        UNION {{<<t>> \o f : t \in TreesExact(tbl, c, k),
                                             f \in tbl[n - k + 1][c]} : k \in 1..n}])

Forests(ctxs, ctx, n) ==
    LET tbl == ForestTable(ctxs, n) IN UNION {tbl[m + 1][ctx] : m \in 0..n}

ListCtxs == {"list", "items", "itemBody"}

Lists ==
    LET tbl == ForestTable(ListCtxs, MaxListNodes - 1)
    IN  UNION {TreesExact(tbl, "list", k) : k \in 1..MaxListNodes}

RECURSIVE EndsWithBreak(_)
\* the last inline node of the block is a text run flagged with a line break: the
\* parser never builds one, the last line of a block has no line break
EndsWithBreak(f) ==
    /\ f # <<>>
    /\ LET last == f[Len(f)]
       IN  IF last.kind = "Text" THEN last.soft \/ last.hard
           ELSE EndsWithBreak(last.children)

NestedDocs ==
    {Document(<<Paragraph(f)>>) :
        f \in {g \in Forests({"inline", "inLink"}, "inline", MaxInlineNodes) : ~EndsWithBreak(g)}}

FlatDocs ==
    {Document(<<Paragraph(f)>>) :
        f \in {g \in SeqsUpTo(FlatElems, MaxFlat) : ~EndsWithBreak(g)}}

BlockDocs == {Document(f) : f \in Forests({"block"}, "block", MaxBlockNodes)}

ListDocs == {Document(<<l>>) : l \in Lists}

CodeDocs == {Document(<<TextBlock(<<TextA>>), c>>) : c \in CodeBlocks}

TableDocs == {Document(<<t>>) : t \in Tables}

\* "*a **b** c*" followed by a sibling paragraph
ExNested ==
    Document(<<Paragraph(<<Emphasis(1, <<Text(<<"a", " ">>, FALSE, FALSE),
                                        Emphasis(2, <<TextB>>),
                                        Text(<<" ", "c">>, FALSE, FALSE)>>)>>),
               Paragraph(<<TextA>>)>>)

\* "See https://x.com for info", as the link detection splits it
ExAutoLink ==
    Document(<<Paragraph(<<Text(<<"S", " ">>, FALSE, FALSE), AutoLink("url", U1),
                           Text(<<" ">>, FALSE, FALSE), Text(<<"f">>, FALSE, FALSE)>>)>>)

\* "*a\nb* ~~[c](v)~~": a soft break under emphasis, a link under strikethrough
ExSoft ==
    Document(<<Paragraph(<<Emphasis(1, <<TextSoft, TextA>>),
                           Strikethrough(<<Link(U2, <<TextA, Emphasis(2, <<TextB>>)>>)>>)>>)>>)

\* a table whose header cell holds raw markup only
ExRawCell ==
    Document(<<Table(<<TableHeader(<<TableCell(<<RawHTML>>)>>),
                       TableRow(<<TableCell(<<TextA>>)>>)>>)>>)

\* "**a**\nb": the line ends right after the emphasis, the soft line break is
\* carried by a text run with an empty segment
ExBoldBreak ==
    Document(<<Paragraph(<<Emphasis(2, <<TextA>>), Text(<<>>, TRUE, FALSE), TextB>>)>>)

\* a block of an unrecognized kind whose first child is dropped, one without
\* children, and a sibling after them
ExOther ==
    Document(<<OtherNode("block", <<Paragraph(<<RawHTML>>), Heading(1, <<TextA>>),
                                    Paragraph(<<TextA>>)>>),
               OtherNode("block", <<>>),
               ThematicBreak>>)

\* "*__~~[a](u)`c`~~__*": two inline nodes that each add a mark, side by side
\* under three ancestors that add one
ExDeep ==
    Document(<<Paragraph(<<Emphasis(1, <<Emphasis(2, <<Strikethrough(
                   <<Link(U1, <<TextA>>), CodeSpan(<<"c">>)>>)>>)>>)>>)>>)

\* leaves that merge under an emphasis, then with the leaves of the next one, and
\* unmarked leaves after them
ExLevels ==
    Document(<<Paragraph(<<Emphasis(1, <<TextA, TextB>>), Emphasis(1, <<TextA>>),
                           TextA, TextB>>)>>)

ExampleDocs ==
    {ExNested, ExAutoLink, ExSoft, ExRawCell, ExBoldBreak, ExOther, ExDeep, ExLevels}

\* the document the parser hands to Convert
IsDoc(d) ==
    \/ d \in ExampleDocs
    \/ d \in NestedDocs
    \/ d \in FlatDocs
    \/ d \in BlockDocs
    \/ d \in ListDocs
    \/ d \in CodeDocs
    \/ d \in TableDocs

\* the mark lists the inline converter builds over the inputs above
LeafMarks == {<<Mark("em")>>, <<Mark("em"), Mark("strong")>>, <<linkMark(U1)>>, <<linkMark(U2)>>}

LeafNodes ==
    {[type |-> "text", text |-> t] : t \in {<<"a">>, <<"b">>}}
      \cup {[type |-> "text", text |-> <<"a">>, marks |-> MkSlice(m)] : m \in LeafMarks}
      \cup {[type |-> "text", text |-> <<"b">>, marks |-> MkSlice(<<Mark("em")>>)]}
      \cup {[type |-> "hardBreak"], [type |-> "inlineCard", attrs |-> [url |-> U1]]}

LeafSlices == {NilSlice} \cup {MkSlice(q) : q \in SeqsUpTo(LeafNodes, MaxLeaves) \ {<<>>}}

-----------------------------------------------------------------------------
(* The mark lists as Go allocates them: a []Node is a window [arr, len] on *)
(* a backing array of the heap, whose length is the capacity; a mark is a  *)
(* Node, that is a reference to a map of the heap. h.arrs[a][i] is the     *)
(* reference held by cell i of array a (0: never written), h.maps[m] the   *)
(* map m.                                                                  *)

EmptyHeap == [arrs |-> <<>>, maps |-> <<>>]

\* the nil []Node
NilRef == [arr |-> 0, len |-> 0]

cap(h, sl) == IF sl.arr = 0 THEN 0 ELSE Len(h.arrs[sl.arr])

\* the references the slice sl holds
MarkRefs(h, sl) == IF sl.arr = 0 THEN <<>> ELSE SubSeq(h.arrs[sl.arr], 1, sl.len)

\* the marks the slice sl holds, by value
MarkValues(h, sl) == [i \in 1..sl.len |-> h.maps[MarkRefs(h, sl)[i]]]

\* copyMarks handing back the list it was given
copyMarksShared(h, marks) == [h |-> h, ref |-> marks]

\* copyMarks: nil for nil, else make([]Node, len(marks)) and copy
copyMarksRef(h, marks) ==
    IF marks.arr = 0 THEN [h |-> h, ref |-> NilRef]
    ELSE [h |-> [h EXCEPT !.arrs = Append(@, MarkRefs(h, marks))],
          ref |-> [arr |-> Len(h.arrs) + 1, len |-> marks.len]]

\* the capacity append gives a full slice of capacity old that grows by one
grownCap(old) == IF old = 0 THEN 1 ELSE old + old

\* append(sl, m) for the reference m: in place when sl has spare capacity
appendRef(h, sl, m) ==
    IF sl.len < cap(h, sl)
    THEN [h |-> [h EXCEPT !.arrs[sl.arr][sl.len + 1] = m],
          ref |-> [arr |-> sl.arr, len |-> sl.len + 1]]
    ELSE [h |-> [h EXCEPT !.arrs =
                    Append(@, [i \in 1..grownCap(cap(h, sl)) |->
                                  IF i <= sl.len THEN MarkRefs(h, sl)[i]
                                  ELSE IF i = sl.len + 1 THEN m ELSE 0])],
          ref |-> [arr |-> Len(h.arrs) + 1, len |-> sl.len + 1]]

\* newMarks := append(copyMarks(marks), Node{...}), the Node being a new map
newMarksRef(h, marks, mark) ==
    LET c == copyMarksRef(h, marks)
    IN  appendRef([c.h EXCEPT !.maps = Append(@, mark)], c.ref, Len(c.h.maps) + 1)

\* a leaf whose marks key holds a slice of the heap, as the leaf by value
Deref(h, leaf) ==
    IF "marks" \in DOMAIN leaf
    THEN [type |-> leaf.type, text |-> leaf.text,
          marks |-> MkSlice(MarkValues(h, leaf.marks))]
    ELSE leaf

RECURSIVE mergeRefLoop(_, _, _)
\* the loop of mergeTextNodes over leaves whose marks live on the heap
mergeRefLoop(h, merged, rest) ==
    IF rest = <<>> THEN merged
    ELSE LET node == Head(rest)
             prev == merged[Len(merged)]
         IN  IF prev.type = "text" /\ node.type = "text"
                  /\ marksEqual(Deref(h, prev), Deref(h, node))
             THEN mergeRefLoop(h, [merged EXCEPT ![Len(merged)] =
                                      [prev EXCEPT !.text = prev.text \o node.text]],
                               Tail(rest))
             ELSE mergeRefLoop(h, Append(merged, node), Tail(rest))

mergeTextNodesRef(h, leaves) ==
    IF Len(leaves) <= 1 THEN leaves
    ELSE mergeRefLoop(h, <<leaves[1]>>, Tail(leaves))

RECURSIVE walkInlineChildren(_, _, _)
RECURSIVE walkLoop(_, _, _)

\* a case of convertInlineChildren that recurses with the new marks made
walkBranch(child, made, st) ==
    LET r == walkInlineChildren(child, made.ref, made.h)
    IN  [h |-> r.h, leaves |-> st.leaves \o r.leaves, intact |-> st.intact /\ r.intact]

\* a case of convertInlineChildren that emits one text leaf with the new marks
walkLeaf(text, made, st) ==
    [h |-> made.h,
     leaves |-> Append(st.leaves, [type |-> "text", text |-> text, marks |-> made.ref]),
     intact |-> st.intact]

\* the *ast.Text case
walkText(child, marks, st) ==
    LET c == IF marks.len > 0 THEN copyMarksRef(st.h, marks) ELSE [h |-> st.h, ref |-> NilRef]
        textNode == IF marks.len > 0
                    THEN [type |-> "text", text |-> child.segment, marks |-> c.ref]
                    ELSE [type |-> "text", text |-> child.segment]
    IN  IF child.segment = <<>> THEN st
        ELSE [h |-> c.h,
              leaves |-> st.leaves \o <<textNode>>
                           \o (IF child.hard THEN <<[type |-> "hardBreak"]>>
                               ELSE IF child.soft THEN <<[type |-> "text", text |-> <<" ">>]>>
                               ELSE <<>>),
              intact |-> st.intact]

\* one iteration of the loop of convertInlineChildren, on the heap st.h
walkCase(child, marks, st) ==
    CASE child.kind = "Text" -> walkText(child, marks, st)
      [] child.kind = "Emphasis" ->
           walkBranch(child, newMarksRef(st.h, marks, Mark(markType(child.level))), st)
      [] child.kind = "CodeSpan" ->
           walkLeaf(child.text, newMarksRef(st.h, marks, Mark("code")), st)
      [] child.kind = "Link" ->
           walkBranch(child, newMarksRef(st.h, marks, linkMark(child.destination)), st)
      [] child.kind = "AutoLink" ->
           [st EXCEPT !.leaves = Append(@, autoLinkLeaf(child))]
      [] child.kind = "Image" ->
           walkLeaf(IF child.text = <<>> THEN child.destination ELSE child.text,
                    newMarksRef(st.h, marks, linkMark(child.destination)), st)
      [] child.kind = "Strikethrough" ->
           walkBranch(child, newMarksRef(st.h, marks, Mark("strike")), st)
      [] child.kind = "RawHTML" -> st
      [] OTHER ->
           IF child.children # <<>>
           THEN walkBranch(child, [h |-> st.h, ref |-> marks], st)
           ELSE st

walkLoop(children, marks, st) ==
    IF children = <<>> THEN st
    ELSE walkLoop(Tail(children), marks, walkCase(Head(children), marks, st))

\* convertInlineChildren(n, source, marks) on the heap h: the heap and the leaves
\* at return; intact: in this call and the calls under it, the marks argument
\* held at return what it held at entry
walkInlineChildren(n, marks, h) ==
    LET r == walkLoop(n.children, marks, [h |-> h, leaves |-> <<>>, intact |-> TRUE])
    IN  [h |-> r.h,
         leaves |-> mergeTextNodesRef(r.h, r.leaves),
         intact |-> r.intact /\ MarkValues(r.h, marks) = MarkValues(h, marks)]

-----------------------------------------------------------------------------
(* The state machine: one call of Convert, of mergeTextNodes, or of         *)
(* convertInlineChildren                                                   *)

NoResult == [type |-> "<none>"]

Init ==
    /\ pc = "call"
    /\ out = NoResult
    /\ \/ fn = "Convert" /\ IsDoc(doc) /\ nodes = NilSlice
       \/ fn = "mergeTextNodes" /\ doc = Document(<<>>) /\ nodes \in LeafSlices
       \/ /\ fn = "convertInlineChildren" /\ IsDoc(doc) /\ nodes = NilSlice
          /\ doc.children # <<>> /\ doc.children[1].kind = "Paragraph"

CallConvert ==
    /\ pc = "call" /\ fn = "Convert"
    /\ out' = Convert(doc)
    /\ pc' = "return"
    /\ UNCHANGED <<fn, doc, nodes>>

CallMergeTextNodes ==
    /\ pc = "call" /\ fn = "mergeTextNodes"
    /\ out' = mergeTextNodes(nodes)
    /\ pc' = "return"
    /\ UNCHANGED <<fn, doc, nodes>>

\* convertInlineChildren(node, source, nil), as convertNode calls it for the first
\* paragraph of doc, with the mark lists on the heap
CallConvertInlineChildren ==
    /\ pc = "call" /\ fn = "convertInlineChildren"
    /\ out' = walkInlineChildren(doc.children[1], NilRef, EmptyHeap)
    /\ pc' = "return"
    /\ UNCHANGED <<fn, doc, nodes>>

Next == CallConvert \/ CallMergeTextNodes \/ CallConvertInlineChildren

Spec == Init /\ [][Next]_vars

-----------------------------------------------------------------------------
(* Vocabulary of the properties                                            *)

Returned(f) == pc = "return" /\ fn = f

\* a document made of one paragraph
OneParagraph(d) == Len(d.children) = 1 /\ d.children[1].kind = "Paragraph"

\* the leaves of the first block of the result, when it has one
FirstLeaves(o) == IF len(o.content) = 0 THEN <<>> ELSE o.content.elems[1].content.elems

IsNil(node) == node.type = NilNode.type

\* the subsequence of q of the elements that satisfy Keep
Kept(q, Keep(_)) == SelectSeq(q, Keep)

-----------------------------------------------------------------------------
(* C1: for every input, Convert completes and returns one root node of     *)
(* type "doc", version 1, whose "content" holds the converted top-level    *)
(* blocks (the top-level nodes that are not dropped) in source order.      *)

ExpectedBlocks(d) ==
    LET conv == [i \in 1..Len(d.children) |-> convertNode(d.children[i])]
        NotDropped(node) == ~IsNil(node)
    IN  Kept(conv, NotDropped)

C1_ConvertReturnsDoc ==
    Returned("Convert") =>
          /\ DOMAIN out = {"version", "type", "content"}
          /\ out.type = "doc"
          /\ out.version = 1
          /\ out.content.elems = ExpectedBlocks(doc)

\* three top-level nodes, one of an unrecognized kind, one of them dropped
C1_Witness ==
    /\ Returned("Convert")
    /\ Len(doc.children) = 3
    /\ \E i \in 1..3 : doc.children[i].kind \in {"OtherNode", "HTMLBlock"}
    /\ len(out.content) = 2
    /\ out.content.elems[1].type # out.content.elems[2].type

-----------------------------------------------------------------------------
(* C2: Convert on a document without children returns                      *)
(* {version: 1, type: "doc", content: []}, the content being an explicit   *)
(* empty array and not a nil (JSON null) one.                              *)

C2_EmptyInputExplicitEmptyContent ==
    (Returned("Convert") /\ doc.children = <<>>) =>
        out = [version |-> 1, type |-> "doc", content |-> MkSlice(<<>>)]

-----------------------------------------------------------------------------
(* C3: an email autolink never becomes an inlineCard: it becomes a text    *)
(* leaf whose literal is the address, with a link mark "mailto:<address>". *)

Mailto == <<"m", "a", "i", "l", "t", "o", ":">>

HasLinkMark(leaf, dest) ==
    /\ "marks" \in DOMAIN leaf
    /\ \E k \in 1..len(leaf.marks) : leaf.marks.elems[k] = linkMark(dest)

IsEmailAutoLink(n) == n.kind = "AutoLink" /\ n.autoLinkType = "email"

IsUrlAutoLink(n) == n.kind = "AutoLink" /\ n.autoLinkType = "url"

C3_EmailAutoLinkIsMailtoLink ==
    (Returned("Convert") /\ OneParagraph(doc)) =>
        \A i \in 1..Len(doc.children[1].children) :
            LET n == doc.children[1].children[i]
                leaves == FirstLeaves(out)
            IN  IsEmailAutoLink(n) =>
                  /\ \A j \in 1..Len(leaves) :
                        leaves[j].type = "inlineCard" => leaves[j].attrs.url # n.url
                  /\ \E j \in 1..Len(leaves) :
                        /\ leaves[j].type = "text"
                        /\ leaves[j].text = n.url
                        /\ HasLinkMark(leaves[j], Mailto \o n.url)

-----------------------------------------------------------------------------
(* C4: card or mark follows the source node kind only. A link node yields  *)
(* an inlineCard only for an autolink node nested in it, and every text    *)
(* leaf produced from its children carries a link mark with the link's     *)
(* destination, except the single-space leaf of a soft line break, which   *)
(* carries no marks; a URL autolink node yields exactly one inlineCard     *)
(* with attrs.url the URL, and no text leaf.                               *)

\* a document made of one paragraph with one inline child
OneInline(d) == OneParagraph(d) /\ Len(d.children[1].children) = 1

OnlyInline(d) == d.children[1].children[1]

RECURSIVE AutoLinkUrls(_)
RECURSIVE AutoLinkUrlsOf(_)
\* the URLs of the autolink nodes of a subtree, in document order
AutoLinkUrls(n) == IF n.kind = "AutoLink" THEN <<n.url>> ELSE AutoLinkUrlsOf(n.children)

AutoLinkUrlsOf(cs) == IF cs = <<>> THEN <<>> ELSE AutoLinkUrls(Head(cs)) \o AutoLinkUrlsOf(Tail(cs))

IsCard(leaf) == leaf.type = "inlineCard"

CardUrls(leaves) ==
    LET cards == Kept(leaves, IsCard) IN [j \in 1..Len(cards) |-> cards[j].attrs.url]

SoftBreakSpace(leaf) == leaf.type = "text" /\ "marks" \notin DOMAIN leaf /\ leaf.text = <<" ">>

UrlAutoLinkIsCard ==
    (Returned("Convert") /\ OneInline(doc) /\ IsUrlAutoLink(OnlyInline(doc))) =>
        FirstLeaves(out) = <<[type |-> "inlineCard", attrs |-> [url |-> OnlyInline(doc).url]]>>

-----------------------------------------------------------------------------
(* C5: the marks of the text leaf holding the literal of a plain text run  *)
(* are exactly the marks of the mark-adding inline ancestors of the run    *)
(* (emphasis 1 -> em, emphasis 2 -> strong, link -> link with href,        *)
(* strikethrough -> strike), one per ancestor, outermost first; the        *)
(* single-space leaf of a soft line break carries no marks. "*a **b** c*"  *)
(* yields "a " [em], "b" [em, strong], " c" [em].                          *)

\* the mark an inline ancestor contributes, as the claim lists them
Contribution(n) ==
    CASE n.kind = "Emphasis" /\ n.level = 1 -> <<Mark("em")>>
      [] n.kind = "Emphasis" /\ n.level = 2 -> <<Mark("strong")>>
      [] n.kind = "Link" -> <<linkMark(n.destination)>>
      [] n.kind = "Strikethrough" -> <<Mark("strike")>>
      [] OTHER -> <<>>

RECURSIVE NodeAt(_, _)
\* the node reached from root by the child indices of path
NodeAt(root, path) ==
    IF path = <<>> THEN root ELSE NodeAt(root.children[Head(path)], Tail(path))

RECURSIVE LeafPaths(_, _)
RECURSIVE LeafPathsOf(_, _, _)
\* the paths, in document order, of the inline nodes without children below n
LeafPaths(n, path) ==
    IF n.children = <<>> THEN <<path>> ELSE LeafPathsOf(n.children, path, 1)

LeafPathsOf(cs, path, i) ==
    IF i > Len(cs) THEN <<>>
    ELSE LeafPaths(cs[i], Append(path, i)) \o LeafPathsOf(cs, path, i + 1)

RECURSIVE Flatten(_)
Flatten(qs) == IF qs = <<>> THEN <<>> ELSE Head(qs) \o Flatten(Tail(qs))

\* the marks of the proper ancestors of the node at path, below the block
AncestorMarks(block, path) ==
    Flatten([k \in 1..(Len(path) - 1) |-> Contribution(NodeAt(block, SubSeq(path, 1, k)))])

Char(c, marks) == [kind |-> "char", c |-> c, marks |-> marks, url |-> <<>>]

Break == [kind |-> "hardBreak", c |-> "", marks |-> <<>>, url |-> <<>>]

Card(url) == [kind |-> "inlineCard", c |-> "", marks |-> <<>>, url |-> url]

Chars(text, marks) == [i \in 1..Len(text) |-> Char(text[i], marks)]

\* what the inline node n under ancestors with marks am stands for, character by
\* character; spaceMarked: the space of a soft break carries the marks too
Meaning(n, am, spaceMarked) ==
    CASE n.kind = "Text" ->
           IF n.segment = <<>> THEN <<>>
           ELSE Chars(n.segment, am)
                  \o (IF n.hard THEN <<Break>>
                      ELSE IF n.soft THEN <<Char(" ", IF spaceMarked THEN am ELSE <<>>)>>
                      ELSE <<>>)
      [] n.kind = "CodeSpan" -> Chars(n.text, am \o <<Mark("code")>>)
      [] n.kind = "Image" ->
           Chars(IF n.text = <<>> THEN n.destination ELSE n.text,
                 am \o <<linkMark(n.destination)>>)
      [] n.kind = "AutoLink" -> <<Card(n.url)>>
      [] OTHER -> <<>>

ExpectedChars(block, spaceMarked) ==
    LET paths == LeafPaths(block, <<>>)
    IN  IF block.children = <<>> THEN <<>>
        ELSE Flatten([i \in 1..Len(paths) |->
                        Meaning(NodeAt(block, paths[i]), AncestorMarks(block, paths[i]),
                                spaceMarked)])

LeafChars(leaf) ==
    CASE leaf.type = "text" ->
           Chars(leaf.text, IF "marks" \in DOMAIN leaf THEN leaf.marks.elems ELSE <<>>)
      [] leaf.type = "hardBreak" -> <<Break>>
      [] leaf.type = "inlineCard" -> <<Card(leaf.attrs.url)>>

OutChars(leaves) == Flatten([j \in 1..Len(leaves) |-> LeafChars(leaves[j])])

\* an empty text run flagged with a line break: what it yields is no matter of
\* the marks
EmptyBreakRun(n) == n.kind = "Text" /\ n.segment = <<>> /\ (n.soft \/ n.hard)

MarksCase(d) ==
    /\ OneParagraph(d) \/ d = ExNested
    /\ \A i \in 1..Len(LeafPaths(d.children[1], <<>>)) :
          ~EmptyBreakRun(NodeAt(d.children[1], LeafPaths(d.children[1], <<>>)[i]))

TextLeaf(t, marks) == [type |-> "text", text |-> t, marks |-> MkSlice(marks)]

ExNestedLeaves ==
    <<TextLeaf(<<"a", " ">>, <<Mark("em")>>),
      TextLeaf(<<"b">>, <<Mark("em"), Mark("strong")>>),
      TextLeaf(<<" ", "c">>, <<Mark("em")>>)>>

-----------------------------------------------------------------------------
(* C6: the result of mergeTextNodes holds no two adjacent text leaves with *)
(* value-wise identical mark lists: every maximal run of such leaves is    *)
(* one text leaf whose literal is the concatenation of the run's literals, *)
(* in order; hardBreak and inlineCard leaves pass through unchanged, merge *)
(* with nothing and separate the text leaves around them.                  *)

MarksOf(leaf) == IF "marks" \in DOMAIN leaf THEN leaf.marks.elems ELSE <<>>

\* two text leaves whose mark lists agree in count and, position by position, in
\* type and attrs
Mergeable(a, b) ==
    /\ a.type = "text" /\ b.type = "text"
    /\ Len(MarksOf(a)) = Len(MarksOf(b))
    /\ \A i \in 1..Len(MarksOf(a)) :
          /\ MarksOf(a)[i].type = MarksOf(b)[i].type
          /\ DOMAIN MarksOf(a)[i] = DOMAIN MarksOf(b)[i]
          /\ "attrs" \in DOMAIN MarksOf(a)[i] =>
                MarksOf(a)[i].attrs.href = MarksOf(b)[i].attrs.href

\* the length of the maximal run of mergeable leaves that starts q
RunLength(q) ==
    CHOOSE k \in 1..Len(q) :
        /\ \A i \in 2..k : Mergeable(q[i - 1], q[i])
        /\ k < Len(q) => ~Mergeable(q[k], q[k + 1])

RECURSIVE Runs(_)
\* q cut into its maximal runs
Runs(q) ==
    IF q = <<>> THEN <<>>
    ELSE <<SubSeq(q, 1, RunLength(q))>> \o Runs(SubSeq(q, RunLength(q) + 1, Len(q)))

\* the one leaf a run stands for
Collapsed(run) ==
    IF Len(run) = 1 THEN run[1]
    ELSE [run[1] EXCEPT !.text = Flatten([i \in 1..Len(run) |-> run[i].text])]

NoAdjacentMergeable(q) == \A j \in 1..(Len(q) - 1) : ~Mergeable(q[j], q[j + 1])

NotText(leaf) == leaf.type # "text"

C6_MergeCollapsesMaximalRuns ==
    /\ Returned("mergeTextNodes") =>
          /\ out.elems = [k \in 1..Len(Runs(nodes.elems)) |-> Collapsed(Runs(nodes.elems)[k])]
          /\ NoAdjacentMergeable(out.elems)
          /\ Kept(out.elems, NotText) = Kept(nodes.elems, NotText)
    /\ (Returned("Convert") /\ OneParagraph(doc)) => NoAdjacentMergeable(FirstLeaves(out))

\* a run of two leaves merged, and a card or break left between two text leaves
\* of the same marks
C6_Witness ==
    /\ Returned("mergeTextNodes")
    /\ Len(out.elems) = 3 /\ Len(nodes.elems) = 4
    /\ out.elems[1].type = "text" /\ Len(out.elems[1].text) = 2
    /\ "marks" \in DOMAIN out.elems[1]
    /\ NotText(out.elems[2])
    /\ out.elems[3].type = "text" /\ MarksOf(out.elems[3]) = MarksOf(out.elems[1])

-----------------------------------------------------------------------------
(* C7: a table converts to one table node with attrs                       *)
(* {isNumberColumnEnabled: false, layout: "default"} whose content has one *)
(* tableRow per source row, in order; the cells of the first (header) row  *)
(* are tableHeader nodes, those of every later row tableCell nodes, one    *)
(* per source cell.                                                        *)

IsTableDoc(d) == Len(d.children) = 1 /\ d.children[1].kind = "Table"

\* the converted cell c of row r of the only table of the result
CellAt(o, r, c) == o.content.elems[1].content.elems[r].content.elems[c]

\* the source cell holds nothing the inline converter turns into a leaf
BlankCell(cell) == ExpectedChars(cell, FALSE) = <<>>

C7_TableRowsAndCellKinds ==
    (Returned("Convert") /\ IsTableDoc(doc)) =>
        LET table == doc.children[1]
            t == out.content.elems[1]
        IN  /\ len(out.content) = 1
            /\ DOMAIN t = {"type", "attrs", "content"}
            /\ t.type = "table"
            /\ t.attrs = [isNumberColumnEnabled |-> FALSE, layout |-> "default"]
            /\ len(t.content) = Len(table.children)
            /\ \A r \in 1..Len(table.children) :
                  /\ DOMAIN t.content.elems[r] = {"type", "content"}
                  /\ t.content.elems[r].type = "tableRow"
                  /\ len(t.content.elems[r].content) = Len(table.children[r].children)
                  /\ \A c \in 1..Len(table.children[r].children) :
                        /\ CellAt(out, r, c).type
                              = (IF r = 1 THEN "tableHeader" ELSE "tableCell")
                        \* the cell stands for the source cell at the same place
                        /\ OutChars(CellAt(out, r, c).content.elems[1].content.elems)
                              = ExpectedChars(table.children[r].children[c], FALSE)

\* a header and two body rows of two cells, the rows and the cells of a row
\* telling themselves apart by what they hold
C7_Witness ==
    /\ Returned("Convert") /\ IsTableDoc(doc)
    /\ len(out.content.elems[1].content) = 3
    /\ len(out.content.elems[1].content.elems[2].content) = 2
    /\ BlankCell(doc.children[1].children[2].children[1])
    /\ ~BlankCell(doc.children[1].children[2].children[2])
    /\ ~BlankCell(doc.children[1].children[3].children[1])
    /\ CellAt(out, 1, 2).type = "tableHeader"
    /\ CellAt(out, 3, 1).type = "tableCell"

-----------------------------------------------------------------------------
(* C8: the content of every tableHeader and tableCell node is exactly one  *)
(* paragraph node; it wraps the converted inline content of the cell when  *)
(* there is some, and otherwise it is still there, with an explicit empty  *)
(* content sequence (not a nil one).                                       *)

C8_CellHoldsOneParagraph ==
    (Returned("Convert") /\ IsTableDoc(doc)) =>
        \A r \in 1..Len(doc.children[1].children) :
            \A c \in 1..Len(doc.children[1].children[r].children) :
                LET cell == doc.children[1].children[r].children[c]
                    content == CellAt(out, r, c).content
                IN  /\ DOMAIN CellAt(out, r, c) = {"type", "content"}
                    /\ ~content.isNil /\ len(content) = 1
                    /\ DOMAIN content.elems[1] = {"type", "content"}
                    /\ content.elems[1].type = "paragraph"
                    /\ ~content.elems[1].content.isNil
                    /\ OutChars(content.elems[1].content.elems) = ExpectedChars(cell, FALSE)
                    /\ BlankCell(cell) <=> content.elems[1].content = MkSlice(<<>>)

\* a cell without children next to a cell with marked and unmarked text
C8_Witness ==
    /\ Returned("Convert") /\ IsTableDoc(doc)
    /\ doc.children[1].children[1].children[1].children = <<>>
    /\ len(out.content.elems[1].content.elems[1].content) = 2
    /\ CellAt(out, 1, 1).content.elems[1].content = MkSlice(<<>>)
    /\ len(CellAt(out, 1, 2).content.elems[1].content) = 2

\* a cell with children none of which yields a leaf
C8_WitnessRawCell ==
    /\ Returned("Convert") /\ doc = ExRawCell
    /\ CellAt(out, 1, 1).content.elems[1].content = MkSlice(<<>>)

-----------------------------------------------------------------------------
(* C9: a list converts to a bulletList when its ordered flag is false and  *)
(* to an orderedList when it is true; its content has one listItem per     *)
(* list-item child, in source order, other children being skipped; the     *)
(* content of a listItem is the converted block children of the item, in   *)
(* order, dropped children omitted, so that a nested list comes after the  *)
(* paragraph of its item, in the same listItem, at every depth.            *)

IsListDoc(d) == Len(d.children) = 1 /\ d.children[1].kind = "List"

IsListItem(n) == n.kind = "ListItem"

\* the block child of a list item is not dropped: it is a list, or a paragraph
\* or text block with something to show
Survives(n) ==
    \/ n.kind = "List"
    \/ n.kind \in {"Paragraph", "TextBlock"} /\ ExpectedChars(n, FALSE) # <<>>

RECURSIVE ListConverted(_, _)
\* o is what the claim asks of the conversion of the list node list
ListConverted(list, o) ==
    LET items == Kept(list.children, IsListItem)
    IN  /\ DOMAIN o = {"type", "content"}
        /\ o.type = (IF list.ordered THEN "orderedList" ELSE "bulletList")
        /\ len(o.content) = Len(items)
        /\ \A i \in 1..Len(items) :
              LET blocks == Kept(items[i].children, Survives)
                  item == o.content.elems[i]
              IN  /\ DOMAIN item = {"type", "content"}
                  /\ item.type = "listItem"
                  /\ len(item.content) = Len(blocks)
                  /\ \A j \in 1..Len(blocks) :
                        IF blocks[j].kind = "List"
                        THEN ListConverted(blocks[j], item.content.elems[j])
                        ELSE /\ item.content.elems[j].type = "paragraph"
                             /\ OutChars(item.content.elems[j].content.elems)
                                   = ExpectedChars(blocks[j], FALSE)

C9_ListItemsInOrder ==
    (Returned("Convert") /\ IsListDoc(doc)) =>
        /\ len(out.content) = 1
        /\ ListConverted(doc.children[1], out.content.elems[1])

\* an ordered list under an item of a bullet list, after the paragraph of the
\* item, with a child of the outer list that is no list item skipped
C9_Witness ==
    /\ Returned("Convert") /\ IsListDoc(doc)
    /\ Len(doc.children[1].children) > len(out.content.elems[1].content)
    /\ out.content.elems[1].type = "bulletList"
    /\ \E i \in 1..len(out.content.elems[1].content) :
          LET item == out.content.elems[1].content.elems[i]
          IN  /\ len(item.content) = 2
              /\ item.content.elems[1].type = "paragraph"
              /\ item.content.elems[2].type = "orderedList"
              /\ len(item.content.elems[2].content) = 1

-----------------------------------------------------------------------------
(* C10: a fenced or indented code block converts to a codeBlock whose     *)
(* content is one text leaf without marks; its literal is the block's      *)
(* lines, concatenated in order, less one trailing "\n" when the           *)
(* concatenation ends with one: never more than one, and blank lines       *)
(* inside are kept.                                                        *)

IsCodeDoc(d) ==
    Len(d.children) = 2 /\ d.children[2].kind \in {"FencedCodeBlock", "CodeBlock"}

\* the characters of all the lines, in order
AllLines(lines) == Flatten(lines)

EndsWithNewline(t) == t # <<>> /\ t[Len(t)] = "\n"

C10_CodeBlockLiteral ==
    (Returned("Convert") /\ IsCodeDoc(doc)) =>
        LET all == AllLines(doc.children[2].lines)
            block == out.content.elems[2]
        IN  /\ len(out.content) = 2
            /\ block.type = "codeBlock"
            /\ len(block.content) = 1
            /\ DOMAIN block.content.elems[1] = {"type", "text"}
            /\ block.content.elems[1].type = "text"
            /\ block.content.elems[1].text
                  = (IF EndsWithNewline(all) THEN SubSeq(all, 1, Len(all) - 1) ELSE all)

\* several trailing newlines, of which the literal keeps all but one, after a
\* line of text
C10_Witness ==
    /\ Returned("Convert") /\ IsCodeDoc(doc)
    /\ Len(doc.children[2].lines) = 3
    /\ doc.children[2].lines[2] = <<"\n">> /\ doc.children[2].lines[3] = <<"\n">>
    /\ out.content.elems[2].content.elems[1].text = <<"a", "\n", "\n">>


-----------------------------------------------------------------------------
(* C11: a codeBlock node carries attrs if and only if it comes from a      *)
(* fenced code block with a non-empty language tag, and attrs is then      *)
(* exactly {language: <tag>}; a fenced block without a tag and every       *)
(* indented code block have no attrs key.                                  *)

HasLanguage(n) == n.kind = "FencedCodeBlock" /\ n.language # <<>>

C11_CodeBlockAttrsIffLanguage ==
    (Returned("Convert") /\ IsCodeDoc(doc)) =>
        LET n == doc.children[2]
            block == out.content.elems[2]
        IN  /\ block.type = "codeBlock"
            /\ "attrs" \in DOMAIN block <=> HasLanguage(n)
            /\ HasLanguage(n) =>
                  /\ DOMAIN block = {"type", "content", "attrs"}
                  /\ DOMAIN block.attrs = {"language"}
                  /\ block.attrs.language = n.language
            /\ ~HasLanguage(n) => DOMAIN block = {"type", "content"}

\* a fenced block with the tag "go" and some lines
C11_Witness ==
    /\ Returned("Convert") /\ IsCodeDoc(doc)
    /\ doc.children[2].kind = "FencedCodeBlock"
    /\ Len(doc.children[2].lines) = 2
    /\ out.content.elems[2].attrs = [language |-> <<"g", "o">>]

-----------------------------------------------------------------------------
(* C12: an image node converts to exactly one text leaf and nothing else:  *)
(* its literal is the alt text of the image, or the destination when the   *)
(* alt text is empty, and its marks are the marks active at the image      *)
(* followed by one link mark whose href is the destination.                *)

IsImage(n) == n.kind = "Image"

\* the paragraph of d holds one inline leaf node, an image, maybe under ancestors
OnlyImage(d) ==
    /\ OneParagraph(d)
    /\ d.children[1].children # <<>>
    /\ Len(LeafPaths(d.children[1], <<>>)) = 1
    /\ IsImage(NodeAt(d.children[1], LeafPaths(d.children[1], <<>>)[1]))

AltOrDestination(n) == IF n.text = <<>> THEN n.destination ELSE n.text

C12_ImageIsOneLinkedTextLeaf ==
    /\ (Returned("Convert") /\ OnlyImage(doc)) =>
          LET path == LeafPaths(doc.children[1], <<>>)[1]
              image == NodeAt(doc.children[1], path)
          IN  /\ len(out.content) = 1
              /\ FirstLeaves(out)
                    = <<TextLeaf(AltOrDestination(image),
                                 AncestorMarks(doc.children[1], path)
                                    \o <<linkMark(image.destination)>>)>>
    \* among other inline nodes: the characters of the image, with its marks, at
    \* its place, and nothing else for it
    /\ (Returned("Convert") /\ MarksCase(doc) /\ OneParagraph(doc)
          /\ \E i \in 1..Len(doc.children[1].children) : IsImage(doc.children[1].children[i])) =>
          OutChars(FirstLeaves(out)) = ExpectedChars(doc.children[1], FALSE)

\* an image with alt text under strong emphasis
C12_Witness ==
    /\ Returned("Convert") /\ OnlyImage(doc)
    /\ Len(LeafPaths(doc.children[1], <<>>)[1]) = 2
    /\ FirstLeaves(out)[1].marks.elems = <<Mark("strong"), linkMark(U2)>>
    /\ FirstLeaves(out)[1].text = <<"i">>


-----------------------------------------------------------------------------
(* C13: in the tree Convert returns, no node of type text has the empty    *)
(* string as its text, whatever produced it (text run, code span, image,   *)
(* code block); a paragraph of bold text only yields a single text leaf.   *)

RECURSIVE NodesOf(_)
\* the nodes of the tree under node, node included, in document order
NodesOf(node) ==
    <<node>> \o (IF "content" \in DOMAIN node
                 THEN Flatten([i \in 1..len(node.content) |-> NodesOf(node.content.elems[i])])
                 ELSE <<>>)

C13_NoEmptyText ==
    Returned("Convert") =>
        /\ \A i \in 1..Len(NodesOf(out)) :
              NodesOf(out)[i].type = "text" => NodesOf(out)[i].text # <<>>
        /\ (OneInline(doc) /\ OnlyInline(doc) = Emphasis(2, <<TextA>>)) =>
              FirstLeaves(out) = <<TextLeaf(<<"a">>, <<Mark("strong")>>)>>

-----------------------------------------------------------------------------
(* C14: in the tree Convert returns, every node with a content key holds a *)
(* non-nil sequence under it, possibly empty: content is never nil, not    *)
(* for an empty heading, an empty blockquote or an empty list item either. *)

C14_ContentNeverNil ==
    Returned("Convert") =>
        \A i \in 1..Len(NodesOf(out)) :
            "content" \in DOMAIN NodesOf(out)[i] => ~NodesOf(out)[i].content.isNil

-----------------------------------------------------------------------------
(* C15: the line-break leaf of a plain text run is emitted whether or not  *)
(* the literal of the run is empty: a hardBreak leaf for a run flagged     *)
(* with a hard line break, else an unmarked single-space text leaf for a   *)
(* run flagged with a soft line break; the text leaf of the literal comes  *)
(* before it only when the literal is non-empty.                           *)

\* Meaning with the break of a text run kept when its literal is empty
MeaningOfRun(n, am) ==
    IF n.kind = "Text"
    THEN Chars(n.segment, am)
           \o (IF n.hard THEN <<Break>>
               ELSE IF n.soft THEN <<Char(" ", <<>>)>>
               ELSE <<>>)
    ELSE Meaning(n, am, FALSE)

ExpectedCharsOfRuns(block) ==
    LET paths == LeafPaths(block, <<>>)
    IN  IF block.children = <<>> THEN <<>>
        ELSE Flatten([i \in 1..Len(paths) |->
                        MeaningOfRun(NodeAt(block, paths[i]),
                                     AncestorMarks(block, paths[i]))])

HasBreakRun(block) ==
    /\ block.children # <<>>
    /\ \E i \in 1..Len(LeafPaths(block, <<>>)) :
          LET n == NodeAt(block, LeafPaths(block, <<>>)[i])
          IN  n.kind = "Text" /\ (n.soft \/ n.hard)

C15_BreakLeafWhateverTheLiteral ==
    (Returned("Convert") /\ OneParagraph(doc) /\ HasBreakRun(doc.children[1])) =>
        OutChars(FirstLeaves(out)) = ExpectedCharsOfRuns(doc.children[1])


-----------------------------------------------------------------------------
(* C16: a paragraph or text block whose converted inline content is empty  *)
(* produces no node and leaves no hole in the content of its parent, which *)
(* holds the surviving blocks only, in source order; a heading is always   *)
(* emitted, with attrs.level the level of the source (1-6), also when its  *)
(* converted inline content is empty.                                      *)

\* the inline node yields a leaf of its own
LeafSource(n) ==
    \/ n.kind = "Text" /\ n.segment # <<>>
    \/ n.kind \in {"CodeSpan", "AutoLink", "Image"}

\* the converted inline content of the block is not empty
YieldsLeaf(block) ==
    /\ block.children # <<>>
    /\ \E i \in 1..Len(LeafPaths(block, <<>>)) :
          LeafSource(NodeAt(block, LeafPaths(block, <<>>)[i]))

TextOrHeading(n) == n.kind \in {"Paragraph", "TextBlock", "Heading"}

Emitted(n) == n.kind = "Heading" \/ YieldsLeaf(n)

C16_EmptyParagraphDroppedHeadingKept ==
    (Returned("Convert") /\ \A i \in 1..Len(doc.children) : TextOrHeading(doc.children[i])) =>
        LET kept == Kept(doc.children, Emitted)
        IN  /\ len(out.content) = Len(kept)
            /\ \A j \in 1..Len(kept) :
                  LET o == out.content.elems[j]
                  IN  /\ OutChars(o.content.elems) = ExpectedChars(kept[j], FALSE)
                      /\ IF kept[j].kind = "Heading"
                         THEN /\ DOMAIN o = {"type", "attrs", "content"}
                              /\ o.type = "heading"
                              /\ o.attrs = [level |-> kept[j].level]
                              /\ kept[j].level \in 1..6
                         ELSE /\ DOMAIN o = {"type", "content"}
                              /\ o.type = "paragraph"
                              /\ len(o.content) > 0

\* a paragraph of raw markup only, dropped between a text block and an empty
\* heading, which are both emitted
C16_Witness ==
    /\ Returned("Convert")
    /\ Len(doc.children) = 3
    /\ doc.children[1].kind = "TextBlock"
    /\ doc.children[2] = Paragraph(<<RawHTML>>)
    /\ doc.children[3] = Heading(6, <<>>)
    /\ len(out.content) = 2
    /\ out.content.elems[1].type = "paragraph"
    /\ out.content.elems[2].type = "heading" /\ out.content.elems[2].attrs.level = 6
    /\ len(out.content.elems[2].content) = 0


-----------------------------------------------------------------------------
(* C17: a block node of an unrecognized kind converts to the first         *)
(* non-dropped result of converting its children in order, the results of  *)
(* the later children being discarded; without children, or when all its   *)
(* children convert to nothing, it converts to nothing. The conversion of  *)
(* its siblings goes on in either case.                                    *)

Unrecognized(n) == n.kind \in {"OtherNode", "HTMLBlock"} /\ NodeType(n) = "block"

NotDropped(node) == ~IsNil(node)

\* the results of converting the children of n that are not dropped, in order
ChildResults(n) ==
    Kept([k \in 1..Len(n.children) |-> convertNode(n.children[k])], NotDropped)

\* what the claim asks of the conversion of the top-level block n
ResultOf(n) ==
    IF Unrecognized(n)
    THEN IF ChildResults(n) = <<>> THEN <<>> ELSE <<ChildResults(n)[1]>>
    ELSE IF IsNil(convertNode(n)) THEN <<>> ELSE <<convertNode(n)>>

C17_UnrecognizedBlockIsFirstChildResult ==
    (Returned("Convert") /\ \E i \in 1..Len(doc.children) : Unrecognized(doc.children[i])) =>
        out.content.elems = Flatten([i \in 1..Len(doc.children) |-> ResultOf(doc.children[i])])

\* the first child dropped, the second one taken, the third one discarded; then a
\* node without children, and a sibling still converted
C17_Witness ==
    /\ Returned("Convert") /\ doc = ExOther
    /\ len(out.content) = 2
    /\ out.content.elems[1].type = "heading"
    /\ out.content.elems[2].type = "rule"


-----------------------------------------------------------------------------
(* C18: in the tree Convert returns, a marks key appears on text leaves    *)
(* only, and its value is then a non-empty sequence: hardBreak and         *)
(* inlineCard leaves, the space of a soft break, the text leaf of a code   *)
(* block and the container nodes carry no marks, a text leaf produced with *)
(* no active marks has no marks key, and the leaf of a code span always    *)
(* has marks, the last of them the code mark.                              *)

IsTextRun(n) == n.kind = "Text"

\* the paragraph of d holds text runs only, directly under it
OnlyPlainRuns(d) ==
    /\ OneParagraph(d)
    /\ \A i \in 1..Len(d.children[1].children) : IsTextRun(d.children[1].children[i])

\* the paragraph of d holds one inline leaf node, a code span, maybe under ancestors
OnlyCodeSpan(d) ==
    /\ OneParagraph(d)
    /\ d.children[1].children # <<>>
    /\ Len(LeafPaths(d.children[1], <<>>)) = 1
    /\ NodeAt(d.children[1], LeafPaths(d.children[1], <<>>)[1]).kind = "CodeSpan"

HasMarks(node) == "marks" \in DOMAIN node

RECURSIVE MarksWellPlaced(_)
\* in the tree under node, a marks key is on text nodes only, with a non-empty
\* sequence under it
MarksWellPlaced(node) ==
    /\ HasMarks(node) =>
          /\ node.type = "text"
          /\ ~node.marks.isNil
          /\ len(node.marks) > 0
    /\ "content" \in DOMAIN node =>
          \A i \in 1..len(node.content) : MarksWellPlaced(node.content.elems[i])

-----------------------------------------------------------------------------
(* C19: mark lists are copied when extended: every step that adds a mark   *)
(* for a recursive inline call or a leaf builds a new list and leaves the  *)
(* inherited list as it was, so that the marks argument of                 *)
(* convertInlineChildren holds at return what it held at entry, and the    *)
(* leaves of a later sibling branch or paragraph carry no mark added in an *)
(* earlier sibling branch.                                                 *)

\* the leaves of the call, their marks read from the heap at return
LeavesByValue(o) == [j \in 1..Len(o.leaves) |-> Deref(o.h, o.leaves[j])]

\* no two leaves hold their marks in the same backing array
OwnMarkLists(o) ==
    \A j, k \in 1..Len(o.leaves) :
        ("marks" \in DOMAIN o.leaves[j] /\ "marks" \in DOMAIN o.leaves[k] /\ j # k) =>
            o.leaves[j].marks.arr # o.leaves[k].marks.arr

C19_MarkListsCopiedOnExtend ==
    /\ Returned("convertInlineChildren") =>
          /\ out.intact
          /\ OwnMarkLists(out)
          /\ OutChars(LeavesByValue(out)) = ExpectedChars(doc.children[1], FALSE)
          /\ LeavesByValue(out) = convertInlineChildren(doc.children[1], NilSlice).elems
    /\ (Returned("Convert") /\ doc = ExNested) =>
          out.content.elems[2].content.elems = <<[type |-> "text", text |-> <<"a">>]>>

\* two sibling branches extend a list of three marks whose backing array, as
\* append grew it, has a spare cell
C19_Witness ==
    /\ Returned("convertInlineChildren") /\ doc = ExDeep
    /\ \E a \in 1..Len(out.h.arrs) :
          /\ Len(out.h.arrs[a]) = 4
          /\ out.h.arrs[a][3] # 0 /\ out.h.arrs[a][4] = 0
    /\ Len(out.leaves) = 2
    /\ LeavesByValue(out)[1].marks.elems
          = <<Mark("em"), Mark("strong"), Mark("strike"), linkMark(U1)>>
    /\ LeavesByValue(out)[2].marks.elems
          = <<Mark("em"), Mark("strong"), Mark("strike"), Mark("code")>>

-----------------------------------------------------------------------------
(* C20: the tree Convert returns is a pure tree of objects allocated in    *)
(* that call: no object of it (node, content sequence, mark list or mark)  *)
(* is reachable from the root by two different paths.                      *)

\* the places of the result that hold a reference to a mark: leaf j, position i
MarkPlaces(o) ==
    {<<j, i>> \in (1..Len(o.leaves)) \X (1..Len(o.h.maps)) :
        "marks" \in DOMAIN o.leaves[j] /\ i <= o.leaves[j].marks.len}

MarkAt(o, place) == MarkRefs(o.h, o.leaves[place[1]].marks)[place[2]]

C20_NoObjectReachableTwice ==
    Returned("convertInlineChildren") =>
        /\ OwnMarkLists(out)
        /\ \A p, q \in MarkPlaces(out) : p # q => MarkAt(out, p) # MarkAt(out, q)


-----------------------------------------------------------------------------
(* C21: mergeTextNodes is idempotent, and it does not matter at which      *)
(* levels it runs: applied to its own output it returns an equal sequence, *)
(* and merging at every recursion level of convertInlineChildren gives the *)
(* same leaves as merging once the flat, unmerged leaf sequence of the     *)
(* whole block.                                                            *)

RECURSIVE FlatLeaves(_, _)
RECURSIVE FlatLeavesOf(_, _)
\* the leaves convertInlineChildren appends for the inline node n under the
\* marks, with no merging at any level
FlatLeaves(n, marks) ==
    CASE n.kind = "Text" -> textLeaves(n, marks)
      [] n.kind = "Emphasis" ->
           FlatLeavesOf(n.children, newMarks(marks, Mark(markType(n.level))))
      [] n.kind = "CodeSpan" -> <<codeSpanLeaf(n, marks)>>
      [] n.kind = "Link" ->
           FlatLeavesOf(n.children, newMarks(marks, linkMark(n.destination)))
      [] n.kind = "AutoLink" -> <<autoLinkLeaf(n)>>
      [] n.kind = "Image" -> <<imageLeaf(n, marks)>>
      [] n.kind = "Strikethrough" ->
           FlatLeavesOf(n.children, newMarks(marks, Mark("strike")))
      [] n.kind = "RawHTML" -> <<>>
      [] OTHER -> FlatLeavesOf(n.children, marks)

FlatLeavesOf(cs, marks) ==
    IF cs = <<>> THEN <<>> ELSE FlatLeaves(Head(cs), marks) \o FlatLeavesOf(Tail(cs), marks)

\* mergeTextNodes applied once to the sequence q
MergedOnce(q) == mergeTextNodes(IF q = <<>> THEN NilSlice ELSE MkSlice(q)).elems

C21_MergeIdempotentAtAnyLevel ==
    /\ Returned("mergeTextNodes") => mergeTextNodes(out) = out
    /\ (Returned("Convert") /\ OneParagraph(doc)) =>
          /\ FirstLeaves(out) = MergedOnce(FlatLeavesOf(doc.children[1].children, NilSlice))
          /\ MergedOnce(FirstLeaves(out)) = FirstLeaves(out)

\* leaves merged under the first emphasis, and merged again with the leaf of the
\* second one by the call for the paragraph
C21_Witness ==
    /\ Returned("Convert") /\ doc = ExLevels
    /\ Len(FlatLeavesOf(doc.children[1].children, NilSlice)) = 5
    /\ FirstLeaves(out)
          = <<TextLeaf(<<"a", "b", "a">>, <<Mark("em")>>),
              [type |-> "text", text |-> <<"a", "b">>]>>

-----------------------------------------------------------------------------
(* C22: mergeTextNodes loses nothing and reorders nothing: the output has  *)
(* the non-text leaves of the input, in the same order and at the same     *)
(* places relative to the text; between two consecutive non-text leaves    *)
(* the concatenation of the text literals is the same in input and output; *)
(* a merged leaf keeps the marks of its run; an input of length 0 or 1 is  *)
(* returned unchanged.                                                     *)

C22_MergeLosesAndReordersNothing ==
    Returned("mergeTextNodes") =>
        \* character by character with the marks, and the other leaves between
        /\ OutChars(out.elems) = OutChars(nodes.elems)
        /\ Len(out.elems) <= Len(nodes.elems)
        /\ len(nodes) <= 1 => out = nodes

\* a card between text leaves, the two leaves after it merged into one
C22_Witness ==
    /\ Returned("mergeTextNodes")
    /\ Len(nodes.elems) = 4 /\ Len(out.elems) = 3
    /\ nodes.elems[1].type = "text"
    /\ IsCard(out.elems[2]) /\ out.elems[2] = nodes.elems[2]
    /\ out.elems[3].type = "text" /\ HasMarks(out.elems[3])
    /\ out.elems[3].text = nodes.elems[3].text \o nodes.elems[4].text
    /\ out.elems[3].marks = nodes.elems[3].marks

====
